---- MODULE Spec2Model ----
(***************************************************************************)
(* Model of the PDF page splitter: the page-selection parser               *)
(* (services/pageParser.ts: parsePageRanges, extractPage) and the          *)
(* incremental extraction pipeline (services/pdfProcessor.ts).             *)
(*                                                                         *)
(* A JavaScript string is a sequence of one-character strings.             *)
(***************************************************************************)
EXTENDS Integers, Sequences, FiniteSets, TLC

(***************************************************************************)
(* Bounds of the model.                                                    *)
(***************************************************************************)
MaxLen == 4          \* longest enumerated selection string (parser)
MaxPages == 3        \* largest page count of an enumerated document
MaxSelLen == 3       \* longest enumerated selection string (pipeline)
MaxAhead == 2        \* next() calls the consumer may have outstanding
MaxLiveSelLen == 2   \* longest enumerated selection string (fair runs)
MaxAppSelLen == 1    \* longest enumerated text typed into the selection field

Alphabet == {"0", "1", "2", "3", ",", "-", " ", "a"}

(***************************************************************************)
(* String primitives of the JavaScript runtime used by the parser.         *)
(***************************************************************************)
IsSpace(c) == c \in {" ", "\t", "\n", "\r"}

IsDigit(c) == c \in {"0", "1", "2", "3", "4", "5", "6", "7", "8", "9"}

DigitVal(c) ==
    CASE c = "0" -> 0 [] c = "1" -> 1 [] c = "2" -> 2 [] c = "3" -> 3
      [] c = "4" -> 4 [] c = "5" -> 5 [] c = "6" -> 6 [] c = "7" -> 7
      [] c = "8" -> 8 [] c = "9" -> 9

RECURSIVE TrimStart(_)
TrimStart(s) ==
    IF s # <<>> /\ IsSpace(Head(s)) THEN TrimStart(Tail(s)) ELSE s

RECURSIVE TrimEnd(_)
TrimEnd(s) ==
    IF s # <<>> /\ IsSpace(s[Len(s)])
    THEN TrimEnd(SubSeq(s, 1, Len(s) - 1))
    ELSE s

\* String.prototype.trim
Trim(s) == TrimEnd(TrimStart(s))

\* String.prototype.includes for a one-character needle
Includes(s, c) == \E k \in 1..Len(s) : s[k] = c

\* String.prototype.split for a one-character separator: the pieces between
\* the separators, empty pieces kept, one piece for a string without separator
RECURSIVE SplitFrom(_, _, _)
SplitFrom(s, sep, cur) ==
    IF s = <<>> THEN <<cur>>
    ELSE IF Head(s) = sep THEN <<cur>> \o SplitFrom(Tail(s), sep, <<>>)
    ELSE SplitFrom(Tail(s), sep, Append(cur, Head(s)))

Split(s, sep) == SplitFrom(s, sep, <<>>)

\* the value of the longest run of digits at the head of s, and its length
RECURSIVE DigitRun(_, _, _)
DigitRun(s, acc, n) ==
    IF s # <<>> /\ IsDigit(Head(s))
    THEN DigitRun(Tail(s), 10 * acc + DigitVal(Head(s)), n + 1)
    ELSE [value |-> acc, digits |-> n]

\* parseInt(s, 10): leading whitespace skipped, an optional sign, then the
\* longest run of digits; what follows the digits is ignored; NaN when there
\* is no digit
ParseInt(s) ==
    LET t    == TrimStart(s)
        neg  == t # <<>> /\ Head(t) = "-"
        sgn  == t # <<>> /\ Head(t) \in {"-", "+"}
        body == IF sgn THEN Tail(t) ELSE t
        run  == DigitRun(body, 0, 0)
    IN  IF run.digits = 0
        THEN [isNaN |-> TRUE, value |-> 0]
        ELSE [isNaN |-> FALSE, value |-> IF neg THEN 0 - run.value ELSE run.value]

\* !selection || selection.trim() === ''
IsBlank_noTrim(selection) == selection = <<>>

IsBlank(selection) == selection = <<>> \/ Trim(selection) = <<>>

\* /^[0-9,\-\s]+$/.test(selection)
AllowedChars_unanchored(selection) ==
    \E k \in 1..Len(selection) :
        IsDigit(selection[k]) \/ selection[k] \in {",", "-"} \/ IsSpace(selection[k])

AllowedChars(selection) ==
    /\ selection # <<>>
    /\ \A k \in 1..Len(selection) :
          IsDigit(selection[k]) \/ selection[k] \in {",", "-"} \/ IsSpace(selection[k])

(***************************************************************************)
(* Set<number> keeps its elements in insertion order.                      *)
(***************************************************************************)
Range(q) == {q[k] : k \in 1..Len(q)}

SetAdd(acc, x) == IF x \in Range(acc) THEN acc ELSE Append(acc, x)

\* for (let i = start; i <= end; i++) pageNumbers.add(i)
RECURSIVE AddRange_noEnd(_, _, _)
AddRange_noEnd(acc, i, end) ==
    IF i >= end THEN acc ELSE AddRange_noEnd(SetAdd(acc, i), i + 1, end)

RECURSIVE AddRange(_, _, _)
AddRange(acc, i, end) ==
    IF i > end THEN acc ELSE AddRange(SetAdd(acc, i), i + 1, end)

\* Array.prototype.sort((a, b) => a - b)
RECURSIVE InsertAsc(_, _)
InsertAsc(q, x) ==
    IF q = <<>> THEN <<x>>
    ELSE IF x < Head(q) THEN <<x>> \o q
    ELSE <<Head(q)>> \o InsertAsc(Tail(q), x)

RECURSIVE SortAscFrom(_, _)
SortAscFrom(q, sorted) ==
    IF q = <<>> THEN sorted ELSE SortAscFrom(Tail(q), InsertAsc(sorted, Head(q)))

SortAsc_unsorted(q) == q

SortAsc(q) == SortAscFrom(q, <<>>)

(***************************************************************************)
(* parsePageRanges.  The result is [err, pages]: err = "none" and the      *)
(* returned array, or the message of the Error thrown and no array.        *)
(***************************************************************************)
Thrown(msg) == [err |-> msg, pages |-> <<>>]

Returned(pages) == [err |-> "none", pages |-> pages]

\* the body of the token loop for a token that contains a hyphen: the new
\* page set, or the error thrown
RangePart_noLengthCheck(part, acc, totalPages) ==
    LET range == Split(part, "-")
    IN  IF Trim(range[1]) = <<>> \/ Trim(range[2]) = <<>>
        THEN Thrown("error_pageSelection_invalidRangeFormat")
        ELSE LET start == ParseInt(range[1])
                 end   == ParseInt(range[2])
             IN  IF start.isNaN \/ end.isNaN
                 THEN Thrown("error_pageSelection_invalidRangeFormat")
                 ELSE IF start.value > end.value
                 THEN Thrown("error_pageSelection_invalidRangeOrder")
                 ELSE IF start.value < 1 \/ end.value > totalPages
                 THEN Thrown("error_pageSelection_outOfBounds")
                 ELSE Returned(AddRange(acc, start.value, end.value))

RangePart_boundsFirst(part, acc, totalPages) ==
    LET range == Split(part, "-")
    IN  IF Len(range) # 2 \/ Trim(range[1]) = <<>> \/ Trim(range[2]) = <<>>
        THEN Thrown("error_pageSelection_invalidRangeFormat")
        ELSE LET start == ParseInt(range[1])
                 end   == ParseInt(range[2])
             IN  IF start.isNaN \/ end.isNaN
                 THEN Thrown("error_pageSelection_invalidRangeFormat")
                 ELSE IF start.value < 1 \/ end.value > totalPages
                 THEN Thrown("error_pageSelection_outOfBounds")
                 ELSE IF start.value > end.value
                 THEN Thrown("error_pageSelection_invalidRangeOrder")
                 ELSE Returned(AddRange(acc, start.value, end.value))

RangePart(part, acc, totalPages) ==
    LET range == Split(part, "-")
    IN  IF Len(range) # 2 \/ Trim(range[1]) = <<>> \/ Trim(range[2]) = <<>>
        THEN Thrown("error_pageSelection_invalidRangeFormat")
        ELSE LET start == ParseInt(range[1])
                 end   == ParseInt(range[2])
             IN  IF start.isNaN \/ end.isNaN
                 THEN Thrown("error_pageSelection_invalidRangeFormat")
                 ELSE IF start.value > end.value
                 THEN Thrown("error_pageSelection_invalidRangeOrder")
                 ELSE IF start.value < 1 \/ end.value > totalPages
                 THEN Thrown("error_pageSelection_outOfBounds")
                 ELSE Returned(AddRange(acc, start.value, end.value))

\* the body of the token loop for a token without hyphen
SinglePart_noNaNCheck(part, acc, totalPages) ==
    LET pageNum == ParseInt(part)
    IN  IF pageNum.value < 1 \/ pageNum.value > totalPages
        THEN Thrown("error_pageSelection_outOfBounds")
        ELSE Returned(SetAdd(acc, pageNum.value))

SinglePart_noBounds(part, acc, totalPages) ==
    LET pageNum == ParseInt(part)
    IN  IF pageNum.isNaN
        THEN Thrown("error_pageSelection_invalidNumber")
        ELSE Returned(SetAdd(acc, pageNum.value))

SinglePart(part, acc, totalPages) ==
    LET pageNum == ParseInt(part)
    IN  IF pageNum.isNaN
        THEN Thrown("error_pageSelection_invalidNumber")
        ELSE IF pageNum.value < 1 \/ pageNum.value > totalPages
        THEN Thrown("error_pageSelection_outOfBounds")
        ELSE Returned(SetAdd(acc, pageNum.value))

\* for (const part of parts) { ... }: the first error thrown ends the loop
RECURSIVE PartsLoop_skipsEmpty(_, _, _)
PartsLoop_skipsEmpty(parts, acc, totalPages) ==
    IF parts = <<>> THEN Returned(acc)
    ELSE LET part == Head(parts)
             step == IF part = <<>>
                     THEN Returned(acc)
                     ELSE IF Includes(part, "-")
                     THEN RangePart(part, acc, totalPages)
                     ELSE SinglePart(part, acc, totalPages)
         IN  IF step.err # "none" THEN step
             ELSE PartsLoop_skipsEmpty(Tail(parts), step.pages, totalPages)

RECURSIVE PartsLoop(_, _, _)
PartsLoop(parts, acc, totalPages) ==
    IF parts = <<>> THEN Returned(acc)
    ELSE LET part == Head(parts)
             step == IF Includes(part, "-")
                     THEN RangePart(part, acc, totalPages)
                     ELSE SinglePart(part, acc, totalPages)
         IN  IF step.err # "none" THEN step
             ELSE PartsLoop(Tail(parts), step.pages, totalPages)

\* selection.split(',').map(part => part.trim())
Parts(selection) ==
    LET raw == Split(selection, ",")
    IN  [k \in 1..Len(raw) |-> Trim(raw[k])]

parsePageRanges(selection, totalPages) ==
    IF IsBlank(selection)
    THEN Thrown("error_pageSelection_empty")
    ELSE IF ~AllowedChars(selection)
    THEN Thrown("error_pageSelection_invalidChars")
    ELSE LET loop == PartsLoop(Parts(selection), <<>>, totalPages)
         IN  IF loop.err # "none" THEN loop
             ELSE IF Len(loop.pages) = 0
             THEN Thrown("error_pageSelection_empty")
             ELSE Returned(SortAsc(loop.pages))

(***************************************************************************)
(* Numbers of the progress report: overallProgress is a fraction           *)
(* <<numerator, denominator>> with a positive denominator.                 *)
(***************************************************************************)
RatInt(k) == <<k, 1>>

RatDiv(a, b) == <<a, b>>

RatMul(x, y) == <<x[1] * y[1], x[2] * y[2]>>

RatAdd(x, y) == <<x[1] * y[2] + y[1] * x[2], x[2] * y[2]>>

RatLeq(x, y) == x[1] * y[2] <= y[1] * x[2]

RatLess(x, y) == x[1] * y[2] < y[1] * x[2]

RatEq(x, y) == x[1] * y[2] = y[1] * x[2]

(***************************************************************************)
(* State.                                                                  *)
(***************************************************************************)
VARIABLES
    selection,             \* parsePageRanges: argument selection
    totalPages,            \* parsePageRanges: argument totalPages
    parsed,                \* parsePageRanges: what the call returned or threw
    parserPc,              \* "idle", "called", "returned", "threw"
    file,                  \* pdfProcessor: the File and what its bytes hold
    pagesToExtract,        \* pdfProcessor: the optional selection argument
    pc,                    \* pdfProcessor: position of the generator
    pageIndicesToProcess,  \* pdfProcessor: the 0-based targets
    i,                     \* pdfProcessor: loop index
    status,                \* pdfProcessor: local of the loop body
    finalSize,             \* pdfProcessor: local of the loop body
    finalBlob,             \* pdfProcessor: local of the loop body
    result,                \* pdfProcessor: the PageResult about to be yielded
    emissions,             \* the updates onProgress has received, in order
    outcomes,              \* the PageResults the consumer has received, in order
    requests,              \* next() calls made by the consumer
    delivered,             \* next() calls settled (value, done or rejection)
    copies,                \* extractPage calls made
    faults,                \* per target attempted so far, the step that failed on it
    thrown,                \* the message of the Error the generator threw
    appState,              \* App: AppState
    appFile,               \* App: the state `file`, NoFile for null
    fileRef,               \* App: fileRef.current
    appTotalPages,         \* App: the state `totalPages`
    error,                 \* App: the message of `error`, "none" for null
    largeFileWarning,      \* App: whether a warning is set
    extractionMode,        \* App: "ALL" or "SPECIFIC"
    pageSelection,         \* App: the text of the selection field
    pageSelectionError     \* App: the message shown, "none" for null

parserVars == <<selection, totalPages, parsed, parserPc>>

inputVars == <<file, pagesToExtract>>

localVars == <<status, finalSize, finalBlob, result>>

pipeVars == <<pc, pageIndicesToProcess, i, localVars, emissions, outcomes,
              requests, delivered, copies, faults, thrown>>

appVars == <<appState, appFile, fileRef, appTotalPages, error, largeFileWarning,
             extractionMode, pageSelection, pageSelectionError>>

vars == <<parserVars, inputVars, pipeVars, appVars>>

(***************************************************************************)
(* Inputs.                                                                 *)
(***************************************************************************)
Strings(n) == UNION {[1..k -> Alphabet] : k \in 0..n}

\* the selections the specification names
SpecSelections ==
    { <<"1", ",", "3", "-", "5", ",", "8">>,
      <<"2", ",", "2", ",", "1", "-", "2">>,
      <<" ", " ", " ">>,
      <<"5", "-", "2">>,
      <<"1", "-", "2", "0">>,
      <<"a", ",", "b">>,
      <<"3", "-">>,
      <<"-", "3">>,
      <<"3", ",", "1", "-", "2", ",", "2">>,
      <<"1", " ", "-", " ", "2", ",", "\t", "3">>,
      <<" ", "\t", "\n">>,
      <<"5", "-", "2", ",", "x">>,
      <<"-", "5">>,
      <<"1", "-", "2", "-", "3">>,
      <<"1", ",", ",", "2">>,
      <<"1", " ", "2", "-", "3">>,
      <<"2", "0", ",", "3", "-">> }

ParserInputs ==
    (Strings(MaxLen) \X (1..MaxPages)) \cup (SpecSelections \X {3, 5, 10})

NoSelection == [supplied |-> FALSE, text |-> <<>>]

Supplied(text) == [supplied |-> TRUE, text |-> text]

PipelineSelections ==
    {NoSelection} \cup {Supplied(t) : t \in Strings(MaxSelLen) \cup SpecSelections}

\* a File: whether PDFDocument.load accepts its bytes, and the page count of
\* the document
Files ==
    {[loadable |-> FALSE, pageCount |-> 0]}
    \cup {[loadable |-> TRUE, pageCount |-> n] : n \in 0..MaxPages}

\* copyPages rejects an index outside the source document
InDocument(f, pageIndex) == pageIndex \in 0..(f.pageCount - 1)

\* pageBytes.byteLength of the saved single-page document
ByteLength(f, pageIndex) == 1000 + pageIndex

(***************************************************************************)
(* pdfProcessor: values.                                                   *)
(***************************************************************************)
Absent == 0 - 1

NoBlob == [present |-> FALSE, size |-> 0]

Blob(size) == [present |-> TRUE, size |-> size]

NoResult == [pageNumber |-> 0, finalSize |-> 0, status |-> "PROCESSING", blob |-> NoBlob]

AnalyzingSnapshot ==
    [stage |-> "ANALYZING", overallProgress |-> RatInt(5), processedPages |-> 0,
     totalPages |-> Absent]

SplittingSnapshot_docPages(totalPagesToProcess) ==
    [stage |-> "SPLITTING", overallProgress |-> RatInt(10), processedPages |-> 0,
     totalPages |-> file.pageCount]

SplittingSnapshot(totalPagesToProcess) ==
    [stage |-> "SPLITTING", overallProgress |-> RatInt(10), processedPages |-> 0,
     totalPages |-> totalPagesToProcess]

\* 10 + 90 * ((i + 1) / totalPagesToProcess)
PageProgress_noDivision(k, totalPagesToProcess) ==
    RatAdd(RatInt(10), RatMul(RatInt(90), RatInt(k + 1)))

PageProgress(k, totalPagesToProcess) ==
    RatAdd(RatInt(10), RatMul(RatInt(90), RatDiv(k + 1, totalPagesToProcess)))

PageSnapshot_index(k, totalPagesToProcess) ==
    [stage |-> "SPLITTING", overallProgress |-> PageProgress(k, totalPagesToProcess),
     processedPages |-> k, totalPages |-> Absent]

PageSnapshot(k, totalPagesToProcess) ==
    [stage |-> "SPLITTING", overallProgress |-> PageProgress(k, totalPagesToProcess),
     processedPages |-> k + 1, totalPages |-> Absent]

DoneSnapshot_lastPage(totalPagesToProcess) ==
    [stage |-> "DONE", overallProgress |-> RatInt(90),
     processedPages |-> totalPagesToProcess, totalPages |-> Absent]

DoneSnapshot(totalPagesToProcess) ==
    [stage |-> "DONE", overallProgress |-> RatInt(100),
     processedPages |-> totalPagesToProcess, totalPages |-> Absent]

\* if (pagesToExtract): undefined and the empty string are falsy
Truthy(p) == p.supplied /\ p.text # <<>>

\* Array.from({ length: totalPagesInDoc }, (_, i) => i)
AllIndices_oneBased(totalPagesInDoc) == [k \in 1..totalPagesInDoc |-> k]

AllIndices(totalPagesInDoc) == [k \in 1..totalPagesInDoc |-> k - 1]

\* .map(p => p - 1)
ToIndices_unshifted(pages) == pages

ToIndices(pages) == [k \in 1..Len(pages) |-> pages[k] - 1]

\* pageNumber: pageIndex + 1
PageNumber_position(pageIndex, k) == k + 1

PageNumber(pageIndex, k) == pageIndex + 1

\* the locals after the try block completed
OkLocals_sizeUnset(f, pageIndex) ==
    [status |-> "OK", finalSize |-> 0, finalBlob |-> Blob(ByteLength(f, pageIndex))]

OkLocals(f, pageIndex) ==
    [status |-> "OK", finalSize |-> ByteLength(f, pageIndex),
     finalBlob |-> Blob(ByteLength(f, pageIndex))]

\* the locals after the catch block
CatchLocals_statusKept(st) == [status |-> st, finalSize |-> 0, finalBlob |-> NoBlob]

CatchLocals(st) == [status |-> "ERROR", finalSize |-> 0, finalBlob |-> NoBlob]

MakeResult(pageIndex, k, locals) ==
    [pageNumber |-> PageNumber(pageIndex, k), finalSize |-> locals.finalSize,
     status |-> locals.status, blob |-> locals.finalBlob]

\* the generator runs only while a next() call of the consumer is unsettled
Running_eager == TRUE

Running == delivered < requests

MaxRequests == MaxPages + 2

\* i++
NextIndex_stuck(k) == k

NextIndex(k) == k + 1

(***************************************************************************)
(* Initial states.                                                         *)
(***************************************************************************)
NoFile == [loadable |-> FALSE, pageCount |-> 0, sizeMB |-> 0, present |-> FALSE]

\* the useState initialisers of App
AppMounted ==
    /\ appState = "IDLE"
    /\ appFile = NoFile
    /\ fileRef = NoFile
    /\ appTotalPages = 0
    /\ error = "none"
    /\ largeFileWarning = FALSE
    /\ extractionMode = "ALL"
    /\ pageSelection = <<>>
    /\ pageSelectionError = "none"

ParserIdle ==
    /\ selection = <<>>
    /\ totalPages = 1
    /\ parsed = Thrown("none")
    /\ parserPc = "idle"

\* the generator object right after pdfProcessor(file, onProgress, pagesToExtract)
PipelineCreated ==
    /\ pc = "start"
    /\ pageIndicesToProcess = <<>>
    /\ i = 0
    /\ status = "PROCESSING"
    /\ finalSize = 0
    /\ finalBlob = NoBlob
    /\ result = NoResult
    /\ emissions = <<>>
    /\ outcomes = <<>>
    /\ requests = 0
    /\ delivered = 0
    /\ copies = 0
    /\ faults = <<>>
    /\ thrown = "none"

PipelineIdle ==
    /\ file = [loadable |-> FALSE, pageCount |-> 0]
    /\ pagesToExtract = NoSelection
    /\ PipelineCreated

\* a call of parsePageRanges on an enumerated input
InitParser ==
    /\ \E input \in ParserInputs :
          /\ selection = input[1]
          /\ totalPages = input[2]
    /\ parsed = Thrown("none")
    /\ parserPc = "called"
    /\ PipelineIdle
    /\ AppMounted

\* a run of pdfProcessor on an enumerated file and selection
Init ==
    /\ ParserIdle
    /\ file \in Files
    /\ pagesToExtract \in PipelineSelections
    /\ PipelineCreated
    /\ AppMounted

(***************************************************************************)
(* parsePageRanges as a call.                                              *)
(***************************************************************************)
ParseReturns ==
    /\ parserPc = "called"
    /\ parsePageRanges(selection, totalPages).err = "none"
    /\ parsed' = parsePageRanges(selection, totalPages)
    /\ parserPc' = "returned"
    /\ UNCHANGED <<selection, totalPages, inputVars, pipeVars, appVars>>

ParseThrows ==
    /\ parserPc = "called"
    /\ parsePageRanges(selection, totalPages).err # "none"
    /\ parsed' = parsePageRanges(selection, totalPages)
    /\ parserPc' = "threw"
    /\ UNCHANGED <<selection, totalPages, inputVars, pipeVars, appVars>>

NextParser == ParseReturns \/ ParseThrows

SpecParser == InitParser /\ [][NextParser]_vars

(***************************************************************************)
(* pdfProcessor, an async generator.  One action is the code between two   *)
(* suspension points (await, yield).                                       *)
(***************************************************************************)

\* the consumer calls processor.next()
Request ==
    /\ requests < MaxRequests
    /\ requests - delivered < MaxAhead
    /\ requests' = requests + 1
    /\ UNCHANGED <<appVars, parserVars, inputVars, pc, pageIndicesToProcess, i, localVars,
                   emissions, outcomes, delivered, copies, faults, thrown>>

\* the first next() starts the body: file.arrayBuffer() is awaited
Start ==
    /\ Running
    /\ pc = "start"
    /\ pc' = "arrayBuffer"
    /\ UNCHANGED <<appVars, parserVars, inputVars, pageIndicesToProcess, i, localVars,
                   emissions, outcomes, requests, delivered, copies, faults, thrown>>

\* onProgress(ANALYZING), then PDFDocument.load is awaited
Analyze ==
    /\ Running
    /\ pc = "arrayBuffer"
    /\ emissions' = Append(emissions, AnalyzingSnapshot)
    /\ pc' = "load"
    /\ UNCHANGED <<appVars, parserVars, inputVars, pageIndicesToProcess, i, localVars,
                   outcomes, requests, delivered, copies, faults, thrown>>

\* the generator throws: the pending next() rejects and the generator is closed
Throw(msg) ==
    /\ thrown' = msg
    /\ pc' = "thrown"
    /\ delivered' = delivered + 1
    /\ UNCHANGED <<appVars, parserVars, inputVars, pageIndicesToProcess, i, localVars,
                   emissions, outcomes, requests, copies, faults>>

\* PDFDocument.load rejects
LoadFails ==
    /\ Running
    /\ pc = "load"
    /\ ~file.loadable
    /\ Throw("error_pdf_load")

\* the targets the loaded document and the selection argument resolve to
ResolveTargets(p, totalPagesInDoc) ==
    IF Truthy(p)
    THEN LET r == parsePageRanges(p.text, totalPagesInDoc)
         IN  IF r.err # "none" THEN r ELSE Returned(ToIndices(r.pages))
    ELSE Returned(AllIndices(totalPagesInDoc))

\* parsePageRanges throws and the error is rethrown
SelectionFails ==
    /\ Running
    /\ pc = "load"
    /\ file.loadable
    /\ Throw(ResolveTargets(pagesToExtract, file.pageCount).err)
    /\ thrown' # "none"

\* the head of the for loop with loop index k, targets and the emissions so
\* far em: either the next extractPage is called and awaited, or the loop is
\* over, DONE is reported and the generator returns
LoopHead(k, targets, em) ==
    /\ i' = k
    /\ IF k < Len(targets)
       THEN /\ status' = "PROCESSING"
            /\ finalSize' = 0
            /\ finalBlob' = NoBlob
            /\ copies' = copies + 1
            /\ emissions' = em
            /\ pc' = "extractPage"
            /\ UNCHANGED delivered
       ELSE /\ emissions' = Append(em, DoneSnapshot(Len(targets)))
            /\ pc' = "done"
            /\ delivered' = delivered + 1
            /\ UNCHANGED <<status, finalSize, finalBlob, copies>>

\* PDFDocument.load resolves: page count, targets, onProgress(SPLITTING) and
\* the first iteration of the loop up to its await
Resolve ==
    /\ Running
    /\ pc = "load"
    /\ file.loadable
    /\ ResolveTargets(pagesToExtract, file.pageCount).err = "none"
    /\ pageIndicesToProcess' = ResolveTargets(pagesToExtract, file.pageCount).pages
    /\ LoopHead(0, pageIndicesToProcess',
                Append(emissions, SplittingSnapshot(Len(pageIndicesToProcess'))))
    /\ UNCHANGED <<appVars, parserVars, inputVars, result, outcomes, requests, faults, thrown>>

\* the rest of an iteration once the locals are final: the result object,
\* onProgress(SPLITTING, i + 1), and the yield expression is reached
FinishPage(locals, fault) ==
    LET pageIndex == pageIndicesToProcess[i + 1]
    IN  /\ faults' = Append(faults, fault)
        /\ status' = locals.status
        /\ finalSize' = locals.finalSize
        /\ finalBlob' = locals.finalBlob
        /\ result' = MakeResult(pageIndex, i, locals)
        /\ emissions' = Append(emissions, PageSnapshot(i, Len(pageIndicesToProcess)))
        /\ pc' = "yield"
        /\ UNCHANGED <<appVars, parserVars, inputVars, pageIndicesToProcess, i, outcomes,
                       requests, delivered, copies, thrown>>

\* extractPage(sourcePdfDoc, pageIndex): the two documents after the call.
\* copyPages reads the page of the source, addPage appends it to newPdfDoc.
extractPage_addsToSource(sourcePdfDoc, pageIndex) ==
    [source    |-> [sourcePdfDoc EXCEPT !.pageCount = @ + 1],
     newPdfDoc |-> <<>>]

extractPage(sourcePdfDoc, pageIndex) ==
    [source    |-> sourcePdfDoc,
     newPdfDoc |-> <<pageIndex>>]

\* extractPage resolves: singlePageDoc.save() is awaited
ExtractPageOk ==
    /\ Running
    /\ pc = "extractPage"
    /\ InDocument(file, pageIndicesToProcess[i + 1])
    /\ file' = extractPage(file, pageIndicesToProcess[i + 1]).source
    /\ pc' = "save"
    /\ UNCHANGED <<appVars, parserVars, pagesToExtract, pageIndicesToProcess, i, localVars,
                   emissions, outcomes, requests, delivered, copies, faults, thrown>>

\* extractPage rejects (a page that cannot be copied): the catch block
ExtractPageFails ==
    /\ Running
    /\ pc = "extractPage"
    /\ FinishPage(CatchLocals(status), "copy")

\* save resolves: the rest of the try block
SaveOk ==
    /\ Running
    /\ pc = "save"
    /\ FinishPage(OkLocals(file, pageIndicesToProcess[i + 1]), "none")

\* save rejects and nothing catches it
SaveFails_rethrows ==
    /\ Running
    /\ pc = "save"
    /\ Throw("error_generic")

\* save rejects: the catch block
SaveFails ==
    /\ Running
    /\ pc = "save"
    /\ FinishPage(CatchLocals(status), "save")

\* yield result: the pending next() resolves with the result and the
\* generator is suspended
Yield ==
    /\ Running
    /\ pc = "yield"
    /\ outcomes' = Append(outcomes, result)
    /\ delivered' = delivered + 1
    /\ pc' = "suspended"
    /\ UNCHANGED <<appVars, parserVars, inputVars, pageIndicesToProcess, i, localVars,
                   emissions, requests, copies, faults, thrown>>

\* a next() call resumes the generator after the yield: i++ and the loop head
Resume ==
    /\ Running
    /\ pc = "suspended"
    /\ LoopHead(NextIndex(i), pageIndicesToProcess, emissions)
    /\ UNCHANGED <<appVars, parserVars, inputVars, pageIndicesToProcess, result, outcomes,
                   requests, faults, thrown>>

\* next() on a generator that has returned or thrown settles with done
Closed ==
    /\ Running
    /\ pc \in {"done", "thrown"}
    /\ delivered' = delivered + 1
    /\ UNCHANGED <<appVars, parserVars, inputVars, pc, pageIndicesToProcess, i, localVars,
                   emissions, outcomes, requests, copies, faults, thrown>>

Next ==
    \/ Request
    \/ Start
    \/ Analyze
    \/ LoadFails
    \/ SelectionFails
    \/ Resolve
    \/ ExtractPageOk
    \/ ExtractPageFails
    \/ SaveOk
    \/ SaveFails
    \/ Yield
    \/ Resume
    \/ Closed

Spec == Init /\ [][Next]_vars

(***************************************************************************)
(* App: the component that owns the file, the selection and the run.  A    *)
(* handler is an action; an async handler is one action per stretch of     *)
(* code between two awaits.  Handlers are enabled where the element that   *)
(* calls them is rendered.                                                 *)
(***************************************************************************)
\* file sizes are counted in MB
MAX_FILE_SIZE_MB == 500

WARNING_SIZE_MB == 100

FileSizesMB == {50, 200, 600}

\* the Files a user can drop
AppFiles ==
    {[loadable |-> f.loadable, pageCount |-> f.pageCount, sizeMB |-> sz, present |-> TRUE] :
        f \in Files, sz \in FileSizesMB}

\* the texts a user can leave in the selection field
AppSelections == Strings(MaxAppSelLen) \cup SpecSelections

\* useState<Partial<JobStatus>>({...})
InitialJobStatus ==
    [stage |-> "QUEUED", overallProgress |-> RatInt(0), processedPages |-> 0,
     totalPages |-> 0]

\* onProgress: setJobStatus(prev => ({...prev, ..., totalPages: update.totalPages ?? prev.totalPages}))
onProgress_totalOverwritten(prev, update) ==
    [stage |-> update.stage, overallProgress |-> update.overallProgress,
     processedPages |-> update.processedPages, totalPages |-> update.totalPages]

onProgress(prev, update) ==
    [stage |-> update.stage, overallProgress |-> update.overallProgress,
     processedPages |-> update.processedPages,
     totalPages |-> IF update.totalPages = Absent THEN prev.totalPages
                    ELSE update.totalPages]

RECURSIVE JobStatusAfter(_, _)
JobStatusAfter(prev, updates) ==
    IF updates = <<>> THEN prev
    ELSE JobStatusAfter(onProgress(prev, Head(updates)), Tail(updates))

\* the state jobStatus: the updates of the run applied to the reset value
jobStatus == JobStatusAfter(InitialJobStatus, emissions)

\* tempResults.push(result); tempResults.sort((a, b) => a.pageNumber - b.pageNumber)
RECURSIVE PushAndSort(_, _)
PushAndSort(tempResults, r) ==
    IF tempResults = <<>> THEN <<r>>
    ELSE IF r.pageNumber < Head(tempResults).pageNumber THEN <<r>> \o tempResults
    ELSE <<Head(tempResults)>> \o PushAndSort(Tail(tempResults), r)

RECURSIVE ResultsAfter(_, _)
ResultsAfter(tempResults, received) ==
    IF received = <<>> THEN tempResults
    ELSE ResultsAfter(PushAndSort(tempResults, Head(received)), Tail(received))

\* the state results: setResults([...tempResults]) after each outcome received
results == ResultsAfter(<<>>, outcomes)

\* no generator: the values of a run are those of the reset job
PipelineReset ==
    /\ file' = [loadable |-> FALSE, pageCount |-> 0]
    /\ pagesToExtract' = NoSelection
    /\ pc' = "start"
    /\ pageIndicesToProcess' = <<>>
    /\ i' = 0
    /\ status' = "PROCESSING"
    /\ finalSize' = 0
    /\ finalBlob' = NoBlob
    /\ result' = NoResult
    /\ emissions' = <<>>
    /\ outcomes' = <<>>
    /\ requests' = 0
    /\ delivered' = 0
    /\ copies' = 0
    /\ faults' = <<>>
    /\ thrown' = "none"

\* resetState: the fields it sets whatever fullReset is (setJobStatus and
\* setResults are the reset of the run's values)
ResetSelection ==
    /\ extractionMode' = "ALL"
    /\ pageSelection' = <<>>
    /\ pageSelectionError' = "none"

\* handleFileSelect, selectedFile.size > MAX_FILE_SIZE_BYTES
FileTooLarge ==
    /\ appState = "IDLE"
    /\ \E selectedFile \in AppFiles :
          /\ selectedFile.sizeMB > MAX_FILE_SIZE_MB
          /\ appFile' = selectedFile
    /\ ResetSelection
    /\ appTotalPages' = 0
    /\ largeFileWarning' = FALSE
    /\ error' = "error_fileTooLarge"
    /\ appState' = "ERROR"
    /\ PipelineReset
    /\ UNCHANGED <<parserVars, fileRef>>

\* handleFileSelect up to the first await
FileSelected ==
    /\ appState = "IDLE"
    /\ \E selectedFile \in AppFiles :
          /\ selectedFile.sizeMB <= MAX_FILE_SIZE_MB
          /\ largeFileWarning' = (selectedFile.sizeMB > WARNING_SIZE_MB)
          /\ appFile' = selectedFile
          /\ fileRef' = selectedFile
    /\ ResetSelection
    /\ appTotalPages' = 0
    /\ error' = "none"
    /\ appState' = "LOADING"
    /\ PipelineReset
    /\ UNCHANGED parserVars

\* if (count === 0)
IsEmptyPdf_never(count) == FALSE

IsEmptyPdf(count) == count = 0

\* handleFileSelect: the document is loaded and has pages
FileLoaded ==
    /\ appState = "LOADING"
    /\ appFile.loadable
    /\ ~IsEmptyPdf(appFile.pageCount)
    /\ appTotalPages' = appFile.pageCount
    /\ appState' = "READY"
    /\ UNCHANGED <<parserVars, inputVars, pipeVars, appFile, fileRef, error,
                   largeFileWarning, extractionMode, pageSelection, pageSelectionError>>

\* handleFileSelect: the document is loaded and has no page
FileEmpty ==
    /\ appState = "LOADING"
    /\ appFile.loadable
    /\ IsEmptyPdf(appFile.pageCount)
    /\ error' = "error_pdf_empty"
    /\ appState' = "ERROR"
    /\ UNCHANGED <<parserVars, inputVars, pipeVars, appFile, fileRef, appTotalPages,
                   largeFileWarning, extractionMode, pageSelection, pageSelectionError>>

\* handleFileSelect: arrayBuffer or PDFDocument.load rejects
FileUnreadable ==
    /\ appState = "LOADING"
    /\ ~appFile.loadable
    /\ error' = "error_pdf_load"
    /\ appState' = "ERROR"
    /\ UNCHANGED <<parserVars, inputVars, pipeVars, appFile, fileRef, appTotalPages,
                   largeFileWarning, extractionMode, pageSelection, pageSelectionError>>

\* handleResetClick: resetState(true)
ResetClicked ==
    /\ appState \in {"DONE", "ERROR"}
    /\ appFile' = NoFile
    /\ fileRef' = NoFile
    /\ appState' = "IDLE"
    /\ ResetSelection
    /\ appTotalPages' = 0
    /\ largeFileWarning' = FALSE
    /\ error' = "none"
    /\ PipelineReset
    /\ UNCHANGED parserVars

\* the radio buttons: setExtractionMode
ModeChanged ==
    /\ appState = "READY"
    /\ extractionMode' = IF extractionMode = "ALL" THEN "SPECIFIC" ELSE "ALL"
    /\ UNCHANGED <<parserVars, inputVars, pipeVars, appState, appFile, fileRef,
                   appTotalPages, error, largeFileWarning, pageSelection,
                   pageSelectionError>>

\* the message handlePageSelectionChange leaves for value
SelectionMessage(value, n) ==
    IF Trim(value) = <<>> THEN "none" ELSE parsePageRanges(value, n).err

\* handlePageSelectionChange
SelectionChanged ==
    /\ appState = "READY"
    /\ extractionMode = "SPECIFIC"
    /\ \E value \in AppSelections :
          /\ value # pageSelection
          /\ pageSelection' = value
          /\ pageSelectionError' = SelectionMessage(value, appTotalPages)
    /\ UNCHANGED <<parserVars, inputVars, pipeVars, appState, appFile, fileRef,
                   appTotalPages, error, largeFileWarning, extractionMode>>

\* {appState === AppState.READY && (... <button onClick={handleStartProcessing}
StartButtonRendered_whileProcessing == appState \in {"READY", "PROCESSING"}

StartButtonRendered == appState = "READY"

\* disabled={isStartButtonDisabled}
isStartButtonDisabled ==
    extractionMode = "SPECIFIC"
      /\ (pageSelectionError # "none" \/ Trim(pageSelection) = <<>>)

\* handleStartProcessing, lines 116-128: the message of the refusal, "none"
\* when the run is started
StartRefusal(mode, text, flagged, n) ==
    IF mode # "SPECIFIC" THEN "none"
    ELSE IF flagged # "none" \/ Trim(text) = <<>> THEN "error_pageSelection_invalid"
    ELSE parsePageRanges(text, n).err

\* handleStartProcessing returns before the run.  The handler is taken for
\* every READY state, also those where the button that calls it is disabled.
StartRefused ==
    /\ StartButtonRendered
    /\ appFile.present
    /\ pageSelectionError' =
          StartRefusal(extractionMode, pageSelection, pageSelectionError, appTotalPages)
    /\ pageSelectionError' # "none"
    /\ UNCHANGED <<parserVars, inputVars, pipeVars, appState, appFile, fileRef,
                   appTotalPages, error, largeFileWarning, extractionMode, pageSelection>>

\* pdfProcessor(file, onProgress, extractionMode === SPECIFIC ? pageSelection : undefined)
SelectionArgument_always(mode, text) == Supplied(text)

SelectionArgument(mode, text) ==
    IF mode = "SPECIFIC" THEN Supplied(text) ELSE NoSelection

\* handleStartProcessing up to the for await: the generator is created.  The
\* File is read and loaded once more by pdfProcessor, which can fail although
\* the load of handleFileSelect succeeded.
StartProcessing ==
    /\ StartButtonRendered
    /\ appFile.present
    /\ StartRefusal(extractionMode, pageSelection, pageSelectionError, appTotalPages) = "none"
    /\ appState' = "PROCESSING"
    /\ error' = "none"
    /\ \E readable \in BOOLEAN :
          file' = [loadable |-> readable, pageCount |-> appFile.pageCount]
    /\ pagesToExtract' = SelectionArgument(extractionMode, pageSelection)
    /\ pc' = "start"
    /\ pageIndicesToProcess' = <<>>
    /\ i' = 0
    /\ status' = "PROCESSING"
    /\ finalSize' = 0
    /\ finalBlob' = NoBlob
    /\ result' = NoResult
    /\ emissions' = <<>>
    /\ outcomes' = <<>>
    /\ requests' = 0
    /\ delivered' = 0
    /\ copies' = 0
    /\ faults' = <<>>
    /\ thrown' = "none"
    /\ UNCHANGED <<parserVars, appFile, fileRef, appTotalPages, largeFileWarning,
                   extractionMode, pageSelection, pageSelectionError>>

\* for await (const result of processor): next() is called when the loop
\* starts and after each pass of the loop body
ForAwaitNext ==
    /\ appState = "PROCESSING"
    /\ requests = delivered
    /\ pc \in {"start", "suspended"}
    /\ Request

\* the steps of the generator the loop drives
GeneratorStep ==
    /\ appState = "PROCESSING"
    /\ \/ Start
       \/ Analyze
       \/ LoadFails
       \/ SelectionFails
       \/ Resolve
       \/ ExtractPageOk
       \/ ExtractPageFails
       \/ SaveOk
       \/ SaveFails
       \/ Yield
       \/ Resume

\* setAppState(AppState.DONE) inside the loop body
ForAwaitDone_early ==
    /\ appState = "PROCESSING"
    /\ outcomes # <<>>
    /\ requests = delivered
    /\ appState' = "DONE"
    /\ UNCHANGED <<parserVars, inputVars, pipeVars, appFile, fileRef, appTotalPages,
                   error, largeFileWarning, extractionMode, pageSelection,
                   pageSelectionError>>

\* the generator returned: setAppState(AppState.DONE)
ForAwaitDone ==
    /\ appState = "PROCESSING"
    /\ pc = "done"
    /\ requests = delivered
    /\ appState' = "DONE"
    /\ UNCHANGED <<parserVars, inputVars, pipeVars, appFile, fileRef, appTotalPages,
                   error, largeFileWarning, extractionMode, pageSelection,
                   pageSelectionError>>

\* next() rejected: the catch block
ForAwaitThrows ==
    /\ appState = "PROCESSING"
    /\ pc = "thrown"
    /\ requests = delivered
    /\ error' = thrown
    /\ appState' = "ERROR"
    /\ UNCHANGED <<parserVars, inputVars, pipeVars, appFile, fileRef, appTotalPages,
                   largeFileWarning, extractionMode, pageSelection, pageSelectionError>>

InitApp ==
    /\ ParserIdle
    /\ PipelineIdle
    /\ AppMounted

NextApp ==
    \/ FileTooLarge
    \/ FileSelected
    \/ FileLoaded
    \/ FileEmpty
    \/ FileUnreadable
    \/ ResetClicked
    \/ ModeChanged
    \/ SelectionChanged
    \/ StartRefused
    \/ StartProcessing
    \/ ForAwaitNext
    \/ GeneratorStep
    \/ ForAwaitDone
    \/ ForAwaitThrows

SpecApp == InitApp /\ [][NextApp]_vars

(***************************************************************************)
(* Runs in which every awaited promise settles: a step of the generator    *)
(* that can be taken is taken.  In SpecPull the consumer also keeps        *)
(* calling next().                                                         *)
(***************************************************************************)
LiveSelections ==
    {NoSelection} \cup {Supplied(t) : t \in Strings(MaxLiveSelLen) \cup SpecSelections}

InitLive ==
    /\ ParserIdle
    /\ file \in Files
    /\ pagesToExtract \in LiveSelections
    /\ PipelineCreated
    /\ AppMounted

\* the steps of the generator other than the settling of PDFDocument.load
PipelineStep ==
    \/ Start
    \/ Analyze
    \/ ExtractPageOk
    \/ ExtractPageFails
    \/ SaveOk
    \/ SaveFails
    \/ Yield
    \/ Resume
    \/ Closed

\* await PDFDocument.load(arrayBuffer) is pending for a next() call.  One of
\* LoadFails, SelectionFails and Resolve is enabled exactly in these states
\* and each of them leaves them, so that []<>~LoadPending is weak fairness of
\* their disjunction.
LoadPending == Running /\ pc = "load"

SpecLive ==
    InitLive /\ [][Next]_vars /\ WF_vars(PipelineStep) /\ []<>~LoadPending

SpecPull ==
    /\ InitLive /\ [][Next]_vars
    /\ WF_vars(PipelineStep) /\ []<>~LoadPending
    /\ WF_vars(Request)

(***************************************************************************)
(* Properties of parsePageRanges (specification SpecParser).               *)
(***************************************************************************)
StrictlyAscending(q) == \A k \in 1..(Len(q) - 1) : q[k] < q[k + 1]

\* C1: whenever parsePageRanges returns, every number of the result lies in
\* [1, totalPages], the sequence is strictly ascending and has no duplicates.
C1_ResultInBoundsAscendingUnique ==
    parserPc = "returned" =>
        /\ \A k \in 1..Len(parsed.pages) : parsed.pages[k] \in 1..totalPages
        /\ StrictlyAscending(parsed.pages)
        /\ Cardinality(Range(parsed.pages)) = Len(parsed.pages)

\* a returned result whose tokens were given in descending, overlapping order
C1_Witness ==
    /\ parserPc = "returned"
    /\ Len(parsed.pages) >= 2
    /\ Includes(selection, ",")
    /\ ParseInt(selection).value = parsed.pages[Len(parsed.pages)]

\* the number a token piece denotes: its first block of digits read as a
\* decimal numeral
RECURSIVE DecimalOf(_)
DecimalOf(d) ==
    IF d = <<>> THEN 0
    ELSE DigitVal(d[Len(d)]) + 10 * DecimalOf(SubSeq(d, 1, Len(d) - 1))

DigitBlock(s) ==
    LET ks    == {k \in 1..Len(s) : IsDigit(s[k])}
        first == CHOOSE k \in ks : \A m \in ks : k <= m
        ends  == {j \in first..Len(s) : \A m \in first..j : IsDigit(s[m])}
        last  == CHOOSE j \in ends : \A m \in ends : m <= j
    IN  SubSeq(s, first, last)

\* the pages a token of an accepted selection denotes
TokenPages(token) ==
    IF \E k \in 1..Len(token) : token[k] = "-"
    THEN LET h == CHOOSE k \in 1..Len(token) : token[k] = "-"
         IN  DecimalOf(DigitBlock(SubSeq(token, 1, h - 1)))
               .. DecimalOf(DigitBlock(SubSeq(token, h + 1, Len(token))))
    ELSE {DecimalOf(DigitBlock(token))}

\* the tokens of a selection: the maximal comma-free pieces
Tokens(s) ==
    LET cuts == {0, Len(s) + 1} \cup {k \in 1..Len(s) : s[k] = ","}
    IN  {SubSeq(s, a + 1, b - 1) : <<a, b>> \in
            {c \in cuts \X cuts : c[1] < c[2] /\ \A m \in cuts : ~(c[1] < m /\ m < c[2])}}

\* C2: whenever parsePageRanges returns, the result is the ascending
\* enumeration of the union of the pages its tokens denote (a single token its
\* value, a range token every integer of [start, end]), overlaps collapsed:
\* "1,3-5,8" over 10 pages gives [1,3,4,5,8], "2,2,1-2" over 5 pages gives [1,2].
C2_ResultIsUnionOfTokens ==
    /\ parserPc = "returned" =>
          /\ Range(parsed.pages) = UNION {TokenPages(t) : t \in Tokens(selection)}
          /\ StrictlyAscending(parsed.pages)
    /\ (parserPc # "called" /\ selection = <<"1", ",", "3", "-", "5", ",", "8">>
          /\ totalPages = 10) => parsed = Returned(<<1, 3, 4, 5, 8>>)
    /\ (parserPc # "called" /\ selection = <<"2", ",", "2", ",", "1", "-", "2">>
          /\ totalPages = 5) => parsed = Returned(<<1, 2>>)

\* the call on "1,3-5,8" over 10 pages has returned
C2_Witness ==
    /\ parserPc = "returned"
    /\ selection = <<"1", ",", "3", "-", "5", ",", "8">>
    /\ totalPages = 10
    /\ Len(parsed.pages) = 5

(***************************************************************************)
(* Properties of pdfProcessor (specification Spec).                        *)
(***************************************************************************)
Last(q) == q[Len(q)]

PageNumbers(q) == [k \in 1..Len(q) |-> q[k].pageNumber]

\* the per-page snapshots among the emissions
PageSnapshots == SelectSeq(emissions, LAMBDA u : u.stage = "SPLITTING" /\ u.processedPages >= 1)

\* C3: a run without selection over a loadable N-page source, pulled until
\* exhaustion, has yielded exactly N outcomes with page numbers 1, 2, ..., N in
\* that order, and its last snapshot is {DONE, 100, processedPages N}.
C3_AllPagesInOrder ==
    (pc = "done" /\ ~pagesToExtract.supplied) =>
        /\ Len(outcomes) = file.pageCount
        /\ \A k \in 1..Len(outcomes) : outcomes[k].pageNumber = k
        /\ Last(emissions).stage = "DONE"
        /\ RatEq(Last(emissions).overallProgress, RatInt(100))
        /\ Last(emissions).processedPages = file.pageCount

\* a completed run without selection over a document of several pages
C3_Witness ==
    /\ pc = "done"
    /\ ~pagesToExtract.supplied
    /\ file.pageCount >= 2
    /\ Len(outcomes) = file.pageCount

\* C4: a run with a selection the parser accepts yields one outcome per page
\* of the resolved page set, in strictly ascending page-number order, each page
\* once, and pageNumber is the page's number in the source document (target
\* index + 1), not the position in the output.
C4_OneOutcomePerSelectedPage ==
    (pagesToExtract.supplied /\ file.loadable
       /\ parsePageRanges(pagesToExtract.text, file.pageCount).err = "none") =>
        LET pages == parsePageRanges(pagesToExtract.text, file.pageCount).pages
        IN  /\ Len(outcomes) <= Len(pages)
            /\ PageNumbers(outcomes) = SubSeq(pages, 1, Len(outcomes))
            /\ StrictlyAscending(PageNumbers(outcomes))
            /\ \A k \in 1..Len(outcomes) :
                  outcomes[k].pageNumber = pageIndicesToProcess[k] + 1
            /\ pc = "done" => Len(outcomes) = Len(pages)

\* a completed run over a selection with overlapping tokens whose first page
\* is not page 1
C4_Witness ==
    /\ pc = "done"
    /\ pagesToExtract.supplied
    /\ Len(Split(pagesToExtract.text, ",")) > Len(outcomes)
    /\ Len(outcomes) >= 1
    /\ outcomes[1].pageNumber > 1

\* C5: whatever subset of the target pages fails in copy or serialize (faults
\* records, per target, the step that failed), a
\* completed run has one outcome per target; the outcomes of the failing pages
\* are {ERROR, finalSize 0, no artifact}, all others are OK, no error reaches
\* the consumer and the run ends with the DONE snapshot.
C5_PageFailuresIsolated ==
    /\ pc \in {"extractPage", "save", "yield", "suspended", "done"} => thrown = "none"
    /\ \A k \in 1..Len(outcomes) :
          /\ outcomes[k].pageNumber = pageIndicesToProcess[k] + 1
          /\ IF faults[k] # "none"
             THEN /\ outcomes[k].status = "ERROR"
                  /\ outcomes[k].finalSize = 0
                  /\ ~outcomes[k].blob.present
             ELSE outcomes[k].status = "OK"
    /\ pc = "done" =>
          /\ Len(outcomes) = Len(pageIndicesToProcess)
          /\ Last(emissions).stage = "DONE"

\* a completed run in which a page failed in copy, a later one in serialize,
\* and a page after a failure succeeded
C5_Witness ==
    /\ pc = "done"
    /\ \E a, b \in 1..Len(outcomes) :
          /\ a < b
          /\ outcomes[a].status = "ERROR"
          /\ outcomes[b].status = "OK"
    /\ \E a \in 1..Len(outcomes) : faults[a] = "copy"
    /\ \E a \in 1..Len(outcomes) : faults[a] = "save"

\* the request fails: the source does not load, or the supplied selection is
\* one the parser rejects
RequestFails ==
    \/ ~file.loadable
    \/ /\ pagesToExtract.supplied
       /\ parsePageRanges(pagesToExtract.text, file.pageCount).err # "none"

RequestError ==
    IF ~file.loadable THEN "error_pdf_load"
    ELSE parsePageRanges(pagesToExtract.text, file.pageCount).err

Aborted ==
    /\ outcomes = <<>>
    /\ copies = 0
    /\ \A k \in 1..Len(emissions) : emissions[k].stage = "ANALYZING"
    /\ Len(emissions) <= 1
    /\ pc \in {"start", "arrayBuffer", "load", "thrown"}
    /\ pc = "thrown" => thrown = RequestError

\* C6: when the source cannot be loaded or the supplied selection fails
\* parsing, pdfProcessor throws that error kind unchanged, yields no outcome,
\* copies no page and emits no SPLITTING or DONE snapshot.
C6_RequestFailureAborts == RequestFails => Aborted

\* C6, for every request but the supplied empty string
C6_RequestFailureAbortsNonEmpty ==
    (RequestFails /\ ~(file.loadable /\ pagesToExtract.text = <<>>)) => Aborted

\* C7: for every supplied selection string, the empty string included, the
\* targets are the parser's result against the page count, each decreased by
\* one, and a string the parser rejects makes the run fail with the parser's
\* error; only without a selection string are all pages 0..totalPages-1 targeted.
C7_TargetsFollowParser ==
    (file.loadable /\ pc \notin {"start", "arrayBuffer", "load"}) =>
        IF pagesToExtract.supplied
        THEN LET r == parsePageRanges(pagesToExtract.text, file.pageCount)
             IN  IF r.err = "none"
                 THEN /\ pc # "thrown"
                      /\ pageIndicesToProcess = [k \in 1..Len(r.pages) |-> r.pages[k] - 1]
                 ELSE /\ pc = "thrown"
                      /\ thrown = r.err
                      /\ copies = 0
        ELSE /\ pc # "thrown"
             /\ pageIndicesToProcess = [k \in 1..file.pageCount |-> k - 1]

\* C7, for every supplied selection string but the empty one
C7_TargetsFollowParserNonEmpty ==
    (pagesToExtract.supplied /\ pagesToExtract.text = <<>>) \/ C7_TargetsFollowParser

\* C8: the overallProgress values of successive emissions of a run never
\* decrease, whatever the number of targets and whichever pages fail.
C8_ProgressMonotonic ==
    \A k \in 1..(Len(emissions) - 1) :
        RatLeq(emissions[k].overallProgress, emissions[k + 1].overallProgress)

\* a completed run over several targets, one of which failed
C8_Witness ==
    /\ pc = "done"
    /\ Len(pageIndicesToProcess) >= 2
    /\ Len(emissions) = Len(pageIndicesToProcess) + 3
    /\ \E k \in 1..Len(outcomes) : outcomes[k].status = "ERROR"

\* C9: the last snapshot emitted in a run, however the run ends, has
\* overallProgress = 100.
C9_EveryRunEndsAt100 ==
    pc \in {"done", "thrown"} =>
        /\ emissions # <<>>
        /\ RatEq(Last(emissions).overallProgress, RatInt(100))

\* C9 amended: the last snapshot emitted in a run that ends by returning (no
\* request-level failure) has overallProgress = 100.
C9_CompletedRunEndsAt100 ==
    pc = "done" =>
        /\ emissions # <<>>
        /\ RatEq(Last(emissions).overallProgress, RatInt(100))

\* a run over several targets has returned
C9_Witness ==
    /\ pc = "done"
    /\ Len(pageIndicesToProcess) >= 2
    /\ Last(emissions).stage = "DONE"

\* the generator waits at the yield for the consumer's next request
Waiting == pc = "suspended" /\ delivered = requests

\* C10: the snapshot of target i is emitted before outcome i is yielded; at
\* most one outcome is produced and not yet yielded; extractions never outnumber
\* the consumer's requests; and while the generator waits for the next request
\* it emits nothing and copies nothing.
C10_Lockstep ==
    /\ [](/\ copies <= requests
          /\ Len(PageSnapshots) - Len(outcomes) \in {0, 1}
          /\ Len(PageSnapshots) - Len(outcomes) = 1 <=> pc = "yield"
          /\ \A k \in 1..Len(outcomes) : PageSnapshots[k].processedPages = k
          /\ copies - Len(outcomes) \in {0, 1}
          /\ Waiting => copies = Len(outcomes))
    /\ [][Waiting => (/\ emissions' = emissions
                      /\ copies' = copies
                      /\ outcomes' = outcomes
                      /\ pc' = pc)]_vars

\* the generator waits at a yield with targets left to extract
C10_Witness ==
    /\ Waiting
    /\ Len(outcomes) >= 1
    /\ Len(outcomes) < Len(pageIndicesToProcess)

(***************************************************************************)
(* The PageSelection grammar, read off the selection string.               *)
(***************************************************************************)
\* s without its surrounding whitespace
Core(s) ==
    LET ks == {k \in 1..Len(s) : ~IsSpace(s[k])}
    IN  IF ks = {} THEN <<>>
        ELSE SubSeq(s, CHOOSE a \in ks : \A m \in ks : a <= m,
                       CHOOSE b \in ks : \A m \in ks : m <= b)

IsNumeral(d) == d # <<>> /\ \A k \in 1..Len(d) : IsDigit(d[k])

Hyphens(token) == {k \in 1..Len(token) : token[k] = "-"}

LeftOf(token) == SubSeq(token, 1, (CHOOSE h \in Hyphens(token) : TRUE) - 1)

RightOf(token) == SubSeq(token, (CHOOSE h \in Hyphens(token) : TRUE) + 1, Len(token))

\* a single integer, whitespace around it ignored
WellFormedSingle(token) == Hyphens(token) = {} /\ IsNumeral(Core(token))

\* start-end, two integers, whitespace around them ignored
WellFormedRange(token) ==
    /\ Cardinality(Hyphens(token)) = 1
    /\ IsNumeral(Core(LeftOf(token)))
    /\ IsNumeral(Core(RightOf(token)))

\* a token with a hyphen that does not split into exactly two non-empty
\* sub-parts around the hyphen
MalformedRange(token) ==
    /\ Hyphens(token) # {}
    /\ \/ Cardinality(Hyphens(token)) # 1
       \/ Core(LeftOf(token)) = <<>>
       \/ Core(RightOf(token)) = <<>>

SingleValue(token) == DecimalOf(Core(token))

RangeStart(token) == DecimalOf(Core(LeftOf(token)))

RangeEnd(token) == DecimalOf(Core(RightOf(token)))

\* a token of the grammar that denotes pages of a document of n pages
ValidToken(token, n) ==
    \/ WellFormedSingle(token) /\ SingleValue(token) \in 1..n
    \/ /\ WellFormedRange(token)
       /\ 1 <= RangeStart(token)
       /\ RangeStart(token) <= RangeEnd(token)
       /\ RangeEnd(token) <= n

OtherChar(c) == ~(IsDigit(c) \/ c = "," \/ c = "-" \/ IsSpace(c))

AllSpace(s) == \A k \in 1..Len(s) : IsSpace(s[k])

\* the selection is made of allowed characters only and is not blank
AllowedOnly(s) == ~AllSpace(s) /\ \A k \in 1..Len(s) : ~OtherChar(s[k])

\* the comma-separated tokens of s, in order
TokenSeq(s) == Split(s, ",")

\* token k of the selection is the first one that is not valid
LeftValid(s, n, k) == \A j \in 1..(k - 1) : ValidToken(TokenSeq(s)[j], n)

Called == parserPc \in {"returned", "threw"}

\* C12: the empty string and every whitespace-only string fail with
\* error_pageSelection_empty, for any totalPages >= 1, before any other check.
C12_BlankIsEmptySelection ==
    (Called /\ AllSpace(selection)) => parsed = Thrown("error_pageSelection_empty")

\* the call on a string of several whitespace characters has thrown
C12_Witness ==
    /\ parserPc = "threw"
    /\ Len(selection) >= 2
    /\ AllSpace(selection)
    /\ parsed.err = "error_pageSelection_empty"

\* C13: every non-blank string with a character other than digits, commas,
\* hyphens and whitespace fails with error_pageSelection_invalidChars, whatever
\* other token errors it contains ("a,b", "5-2,x").
C13_OtherCharIsInvalidChars ==
    (Called /\ ~AllSpace(selection)
       /\ \E k \in 1..Len(selection) : OtherChar(selection[k]))
    => parsed = Thrown("error_pageSelection_invalidChars")

\* the call on "5-2,x" has thrown
C13_Witness ==
    /\ parserPc = "threw"
    /\ selection = <<"5", "-", "2", ",", "x">>
    /\ parsed.err = "error_pageSelection_invalidChars"

\* C14: in a selection of allowed characters whose tokens to the left are all
\* valid, a token with a hyphen that does not split into exactly two non-empty
\* sub-parts fails with error_pageSelection_invalidRangeFormat.
C14_MalformedRangeIsInvalidRangeFormat ==
    (Called /\ AllowedOnly(selection)) =>
        \A k \in 1..Len(TokenSeq(selection)) :
            (LeftValid(selection, totalPages, k) /\ MalformedRange(TokenSeq(selection)[k]))
            => parsed = Thrown("error_pageSelection_invalidRangeFormat")

\* a malformed range after a valid token has been rejected
C14_Witness ==
    /\ parserPc = "threw"
    /\ AllowedOnly(selection)
    /\ Len(TokenSeq(selection)) >= 2
    /\ LeftValid(selection, totalPages, 2)
    /\ MalformedRange(TokenSeq(selection)[2])
    /\ parsed.err = "error_pageSelection_invalidRangeFormat"

\* C15: in such a selection a well-formed range start-end with start > end
\* fails with error_pageSelection_invalidRangeOrder, also when start or end is
\* outside [1, totalPages] ("5-2" over 10 pages and over 3 pages).
C15_DescendingRangeIsInvalidRangeOrder ==
    (Called /\ AllowedOnly(selection)) =>
        \A k \in 1..Len(TokenSeq(selection)) :
            (/\ LeftValid(selection, totalPages, k)
             /\ WellFormedRange(TokenSeq(selection)[k])
             /\ RangeStart(TokenSeq(selection)[k]) > RangeEnd(TokenSeq(selection)[k]))
            => parsed = Thrown("error_pageSelection_invalidRangeOrder")

\* the call on "5-2" over 3 pages has thrown
C15_Witness ==
    /\ parserPc = "threw"
    /\ selection = <<"5", "-", "2">>
    /\ totalPages = 3
    /\ parsed.err = "error_pageSelection_invalidRangeOrder"

\* C16: in such a selection a range with start <= end and (start < 1 or
\* end > totalPages), and a single integer outside [1, totalPages] (0 included),
\* fail with error_pageSelection_outOfBounds ("1-20" over 10 pages); no page
\* outside [1, totalPages] is ever returned.
C16_OutsideIsOutOfBounds ==
    /\ (Called /\ AllowedOnly(selection)) =>
          \A k \in 1..Len(TokenSeq(selection)) :
              LET token == TokenSeq(selection)[k]
              IN  (/\ LeftValid(selection, totalPages, k)
                   /\ \/ /\ WellFormedRange(token)
                         /\ RangeStart(token) <= RangeEnd(token)
                         /\ (RangeStart(token) < 1 \/ RangeEnd(token) > totalPages)
                      \/ /\ WellFormedSingle(token)
                         /\ SingleValue(token) \notin 1..totalPages)
                  => parsed = Thrown("error_pageSelection_outOfBounds")
    /\ Called => \A k \in 1..Len(parsed.pages) : parsed.pages[k] \in 1..totalPages

\* the call on "1-20" over 10 pages has thrown
C16_Witness ==
    /\ parserPc = "threw"
    /\ selection = <<"1", "-", "2", "0">>
    /\ totalPages = 10
    /\ parsed.err = "error_pageSelection_outOfBounds"

\* no integer can be read from the token: after its leading whitespace it
\* does not start with a digit
NoInteger(token) == Core(token) = <<>> \/ ~IsDigit(Core(token)[1])

C18_OnlyGrammarAccepted ==
    parserPc = "returned" =>
        \A k \in 1..Len(TokenSeq(selection)) :
            ValidToken(TokenSeq(selection)[k], totalPages)

\* C18, the converse: every string of the grammar is accepted
C18_GrammarAccepted ==
    (Called /\ selection # <<>>
       /\ \A k \in 1..Len(TokenSeq(selection)) :
             ValidToken(TokenSeq(selection)[k], totalPages))
    => parserPc = "returned"

(***************************************************************************)
(* Properties of the outcomes of pdfProcessor (specification Spec).        *)
(***************************************************************************)
WellFormedOutcome(o, pageIndex) ==
    /\ o.status \in {"OK", "ERROR"}
    /\ o.status = "ERROR" => (o.finalSize = 0 /\ ~o.blob.present)
    /\ o.status = "OK" =>
          /\ o.blob.present
          /\ o.finalSize = ByteLength(file, pageIndex)
          /\ o.blob.size = o.finalSize

\* C11: every outcome yielded is terminal and well-formed: status OK or ERROR,
\* never PROCESSING; ERROR implies finalSize 0 and no artifact; OK implies an
\* artifact whose byte length is finalSize.
C11_OutcomesTerminal ==
    /\ \A k \in 1..Len(outcomes) : WellFormedOutcome(outcomes[k], pageIndicesToProcess[k])
    /\ pc = "yield" => WellFormedOutcome(result, pageIndicesToProcess[i + 1])

\* outcomes of both kinds have been yielded, while the locals of the next
\* iteration are PROCESSING
C11_Witness ==
    /\ pc \in {"extractPage", "save"}
    /\ status = "PROCESSING"
    /\ \E k \in 1..Len(outcomes) : outcomes[k].status = "OK"
    /\ \E k \in 1..Len(outcomes) : outcomes[k].status = "ERROR"

(***************************************************************************)
(* Cancellation and termination (specifications SpecLive and SpecPull).    *)
(***************************************************************************)
DoneEmitted == \E k \in 1..Len(emissions) : emissions[k].stage = "DONE"

\* C19: when the consumer stops requesting after k outcomes, exactly k
\* extractions and k per-page snapshots have occurred and DONE has not been
\* emitted; as long as it does not request, the pipeline copies nothing, emits
\* nothing and yields nothing; an extraction that a request has started runs
\* to completion and its outcome is yielded.
C19_CooperativeCancellation ==
    /\ [](Waiting => /\ copies = Len(outcomes)
                     /\ Len(PageSnapshots) = Len(outcomes)
                     /\ ~DoneEmitted)
    /\ [](pc \in {"extractPage", "save", "yield"} => delivered < requests)
    /\ [][(Waiting /\ requests' = requests) => UNCHANGED <<inputVars, pipeVars>>]_vars
    /\ [](pc = "suspended" => (Len(outcomes) = i + 1 /\ Last(outcomes) = result))
    /\ (pc \in {"extractPage", "save", "yield"} /\ Len(outcomes) = i)
          ~> (pc = "suspended" /\ Len(outcomes) = i + 1)

\* the consumer has received an outcome, has no request outstanding, and
\* targets are left
C19_Witness ==
    /\ Waiting
    /\ Len(outcomes) = 1
    /\ Len(pageIndicesToProcess) >= 2
    /\ copies = 1

\* the number of targets of the run
ExpectedTargets ==
    IF pagesToExtract.supplied
    THEN Len(parsePageRanges(pagesToExtract.text, file.pageCount).pages)
    ELSE file.pageCount

\* C20: for a loadable document and a valid or absent selection, when the
\* consumer keeps requesting and every copy/serialize step returns or fails,
\* the pipeline eventually emits DONE and completes after exactly N outcomes;
\* once completed it never yields again.
C20_RunTerminates ==
    /\ (/\ file.loadable
        /\ \/ ~pagesToExtract.supplied
           \/ parsePageRanges(pagesToExtract.text, file.pageCount).err = "none")
       => <>(/\ pc = "done"
             /\ Len(outcomes) = ExpectedTargets
             /\ Last(emissions).stage = "DONE")
    /\ [][pc = "done" => (/\ pc' = "done"
                          /\ outcomes' = outcomes
                          /\ emissions' = emissions
                          /\ copies' = copies)]_vars

\* a completed run of several outcomes whose consumer called next() again
C20_Witness ==
    /\ pc = "done"
    /\ Len(outcomes) >= 2
    /\ delivered = Len(outcomes) + 2

(***************************************************************************)
(* The source document (specification Spec).                               *)
(***************************************************************************)
\* C21: no step of a run changes the source document: its page count and its
\* pages stay what they were when the run was created, whether pages are
\* counted, copied, serialized or fail.
C21_SourceReadOnly == [][file' = file]_vars

\* a run is over in which a page was copied and saved and another page failed
C21_Witness ==
    /\ pc = "done"
    /\ \E k \in 1..Len(faults) : faults[k] = "none"
    /\ \E k \in 1..Len(faults) : faults[k] # "none"
    /\ Len(outcomes) = file.pageCount

(***************************************************************************)
(* The order of the validation phases of parsePageRanges (SpecParser).     *)
(***************************************************************************)
\* the first number written in a piece of a token
FirstNumber(piece) == DecimalOf(DigitBlock(piece))

\* a token that is structurally malformed
Structural(token) ==
    \/ MalformedRange(token)
    \/ Hyphens(token) = {} /\ NoInteger(token)

\* a token of sound structure whose numbers are in the wrong order or outside
\* a document of n pages
SemanticallyInvalid(token, n) ==
    /\ ~Structural(token)
    /\ IF Hyphens(token) # {}
       THEN \/ FirstNumber(LeftOf(token)) > FirstNumber(RightOf(token))
            \/ FirstNumber(LeftOf(token)) < 1
            \/ FirstNumber(RightOf(token)) > n
       ELSE FirstNumber(token) \notin 1..n

StructuralErrors ==
    {"error_pageSelection_invalidRangeFormat", "error_pageSelection_invalidNumber"}

SemanticErrors ==
    {"error_pageSelection_invalidRangeOrder", "error_pageSelection_outOfBounds"}

\* the selection holds a malformed token and token k stands to the left of
\* every malformed token
BeforeMalformed(s, k) ==
    \A j \in 1..Len(TokenSeq(s)) : Structural(TokenSeq(s)[j]) => k < j

\* C22: whenever a selection of allowed characters holds a structurally
\* malformed token, the error reported is a structural one and never
\* invalidRangeOrder or outOfBounds, even if a semantically invalid token stands
\* to its left ("20,3-" over 10 pages).
C22_StructuralErrorFirst ==
    (/\ Called
     /\ AllowedOnly(selection)
     /\ \E k \in 1..Len(TokenSeq(selection)) : Structural(TokenSeq(selection)[k]))
    => parsed.err \in StructuralErrors

\* C22 as amended: tokens are validated from left to right, each one
\* structurally and then semantically.  With a malformed token in the
\* selection the error is structural exactly when no semantically invalid
\* token stands to the left of the leftmost malformed one, and otherwise it is
\* invalidRangeOrder or outOfBounds.
C22_LeftmostInvalidTokenDecides ==
    (/\ Called
     /\ AllowedOnly(selection)
     /\ \E k \in 1..Len(TokenSeq(selection)) : Structural(TokenSeq(selection)[k]))
    => IF \E k \in 1..Len(TokenSeq(selection)) :
              /\ BeforeMalformed(selection, k)
              /\ SemanticallyInvalid(TokenSeq(selection)[k], totalPages)
       THEN parsed.err \in SemanticErrors
       ELSE parsed.err \in StructuralErrors

\* the call on "20,3-" over 10 pages has thrown outOfBounds
C22_Witness ==
    /\ parserPc = "threw"
    /\ selection = <<"2", "0", ",", "3", "-">>
    /\ totalPages = 10
    /\ parsed.err = "error_pageSelection_outOfBounds"

(***************************************************************************)
(* The progress snapshots of a run (specification Spec).                   *)
(***************************************************************************)
StageRank(stage) ==
    CASE stage = "QUEUED" -> 0
      [] stage = "ANALYZING" -> 1
      [] stage = "SPLITTING" -> 2
      [] stage = "DONE" -> 3

\* C23: the emissions of a completed run over N targets are exactly
\* {ANALYZING, 5, 0}, {SPLITTING, 10, 0, totalPages N}, N per-page SPLITTING
\* snapshots and {DONE, 100, N}, with N the number of targets and not the page
\* count of the document; the stage never moves backwards and QUEUED is never
\* emitted.
C23_EmissionSequence ==
    LET N == Len(pageIndicesToProcess)
    IN  /\ pc = "done" =>
              /\ Len(emissions) = N + 3
              /\ emissions[1].stage = "ANALYZING"
              /\ RatEq(emissions[1].overallProgress, <<5, 1>>)
              /\ emissions[1].processedPages = 0
              /\ emissions[2].stage = "SPLITTING"
              /\ RatEq(emissions[2].overallProgress, <<10, 1>>)
              /\ emissions[2].processedPages = 0
              /\ emissions[2].totalPages = N
              /\ \A k \in 1..N : /\ emissions[2 + k].stage = "SPLITTING"
                                 /\ emissions[2 + k].processedPages = k
              /\ emissions[N + 3].stage = "DONE"
              /\ RatEq(emissions[N + 3].overallProgress, <<100, 1>>)
              /\ emissions[N + 3].processedPages = N
        /\ \A k \in 1..Len(emissions) :
              emissions[k].stage \in {"ANALYZING", "SPLITTING", "DONE"}
        /\ \A k \in 1..(Len(emissions) - 1) :
              StageRank(emissions[k].stage) <= StageRank(emissions[k + 1].stage)

\* a completed run over several targets that are not the whole document
C23_Witness ==
    /\ pc = "done"
    /\ Len(pageIndicesToProcess) >= 2
    /\ Len(pageIndicesToProcess) < file.pageCount
    /\ Len(emissions) = Len(pageIndicesToProcess) + 3

\* C24: the snapshot emitted after the target at position i of N has
\* overallProgress = 10 + 90 * (i + 1) / N and processedPages = i + 1, whether
\* the page succeeded or failed; processedPages never exceeds N, the per-page
\* progress lies in (10, 100], and the last target's snapshot reports 100.
C24_PerPageSnapshot ==
    LET N == Len(pageIndicesToProcess)
    IN  /\ \A k \in 1..Len(PageSnapshots) :
              LET u == PageSnapshots[k]
              IN  /\ u.processedPages = k
                  /\ k <= N
                  /\ RatEq(u.overallProgress, <<10 * N + 90 * k, N>>)
                  /\ RatLess(<<10, 1>>, u.overallProgress)
                  /\ RatLeq(u.overallProgress, <<100, 1>>)
                  /\ k = N => RatEq(u.overallProgress, <<100, 1>>)
        /\ pc = "yield" =>
              /\ Last(emissions).stage = "SPLITTING"
              /\ Last(emissions).processedPages = i + 1
              /\ Len(PageSnapshots) = i + 1
              /\ result.status \in {"OK", "ERROR"}

\* the last of several targets failed and its outcome is about to be yielded
C24_Witness ==
    /\ pc = "yield"
    /\ result.status = "ERROR"
    /\ i + 1 = Len(pageIndicesToProcess)
    /\ i >= 1
    /\ \E k \in 1..Len(outcomes) : outcomes[k].status = "OK"

(***************************************************************************)
(* The final guard of parsePageRanges (specification SpecParser).          *)
(***************************************************************************)
\* C25: the final EmptySelection guard is unreachable: a selection that passes
\* the blank check and the character check either has a token that raises an
\* error or adds at least one page, so error_pageSelection_empty comes from the
\* blank check only and every returned sequence is non-empty.
C25_FinalGuardUnreachable ==
    /\ (Called /\ parsed.err = "error_pageSelection_empty") => AllSpace(selection)
    /\ (Called /\ AllowedOnly(selection)) =>
          \/ parsed.err \in StructuralErrors \cup SemanticErrors
          \/ parsed.err = "none" /\ Len(parsed.pages) >= 1
    /\ parserPc = "returned" => Len(parsed.pages) >= 1

\* a range of one page has been accepted: the loop ended with a set of one page
C25_Witness ==
    /\ parserPc = "returned"
    /\ Cardinality(Hyphens(selection)) = 1
    /\ ~Includes(selection, ",")
    /\ Len(parsed.pages) = 1

(***************************************************************************)
(* No retries (specification Spec).                                        *)
(***************************************************************************)
\* the part of the body the generator is in
Phase(p) ==
    CASE p = "start" -> 0
      [] p = "arrayBuffer" -> 1
      [] p = "load" -> 2
      [] p \in {"extractPage", "save", "yield", "suspended"} -> 3
      [] p \in {"done", "thrown"} -> 4

\* C26: each target is attempted (copy + serialize) exactly once, whether the
\* attempt succeeds or fails: attempt number k is for position k, and a
\* completed run has made N attempts.  A request-level failure is thrown once:
\* nothing was copied and load and parse are never entered again.
C26_NoRetries ==
    /\ [](/\ copies <= Len(pageIndicesToProcess)
          /\ pc \in {"extractPage", "save"} => (copies = i + 1 /\ Len(faults) = i)
          /\ pc \in {"yield", "suspended"} => (copies = i + 1 /\ Len(faults) = i + 1)
          /\ pc = "done" => (/\ copies = Len(pageIndicesToProcess)
                             /\ Len(faults) = copies
                             /\ Len(outcomes) = copies)
          /\ pc = "thrown" => (/\ copies = 0
                               /\ outcomes = <<>>
                               /\ emissions = <<AnalyzingSnapshot>>))
    /\ [][/\ Phase(pc') >= Phase(pc)
          /\ copies' # copies => (copies' = copies + 1 /\ i' = copies)
          /\ Len(faults') # Len(faults) => Len(faults') = Len(faults) + 1
          /\ pc = "thrown" => (pc' = "thrown" /\ thrown' = thrown)]_vars

\* a completed run of several targets all of which failed
C26_Witness ==
    /\ pc = "done"
    /\ Len(faults) >= 2
    /\ \A k \in 1..Len(faults) : faults[k] # "none"
    /\ copies = Len(faults)

\* C27: a PDF with no page never reaches READY: the load of handleFileSelect
\* ends in ERROR with error_pdf_empty.  Hence while the app is READY or
\* PROCESSING its totalPages is the page count of the file and is at least 1,
\* for every parsePageRanges call of the handlers and of the started run.
C27_EmptyPdfNeverReady ==
    /\ [](/\ appState \in {"READY", "PROCESSING", "DONE"} =>
                (appFile.loadable /\ appFile.pageCount # 0)
          /\ appState \in {"READY", "PROCESSING"} =>
                (appTotalPages >= 1 /\ appTotalPages = appFile.pageCount)
          /\ appState = "PROCESSING" => file.pageCount = appTotalPages)
    /\ [][(/\ appState = "LOADING"
           /\ appFile.loadable
           /\ appFile.pageCount = 0
           /\ appState' # appState)
            => (appState' = "ERROR" /\ error' = "error_pdf_empty")]_vars

\* a readable PDF without pages was dropped and refused
C27_Witness ==
    /\ appState = "ERROR"
    /\ error = "error_pdf_empty"
    /\ appFile.loadable
    /\ appFile.pageCount = 0
    /\ appTotalPages = 0

\* the start handler refuses: SPECIFIC mode with a blank, flagged or rejected text
MustRefuse ==
    /\ extractionMode = "SPECIFIC"
    /\ \/ Trim(pageSelection) = <<>>
       \/ pageSelectionError # "none"
       \/ parsePageRanges(pageSelection, appTotalPages).err # "none"

\* C28: the UI starts the pipeline only with input the parser accepts.  In
\* SPECIFIC mode a start with a blank, flagged or rejected selection leaves the
\* app READY and creates no run (and the start button is disabled exactly
\* then); a run started in ALL mode gets no selection string whatever the
\* field holds.  So a run of the UI never has an empty or invalid selection
\* string, and the only error it can throw is the load error.
C28_OnlyAcceptedSelections ==
    /\ [](/\ appState = "READY" => (isStartButtonDisabled <=> MustRefuse)
          /\ pagesToExtract.supplied =>
                (/\ extractionMode = "SPECIFIC"
                 /\ pagesToExtract.text = pageSelection
                 /\ Trim(pagesToExtract.text) # <<>>
                 /\ parsePageRanges(pagesToExtract.text, file.pageCount).err = "none")
          /\ (appState \in {"PROCESSING", "DONE"} /\ extractionMode = "ALL")
                => pagesToExtract = NoSelection
          /\ thrown \in {"none", "error_pdf_load"})
    /\ [][(appState = "READY" /\ MustRefuse)
            => (appState' = "READY" /\ UNCHANGED <<inputVars, pipeVars>>)]_vars

\* a run in ALL mode that completed although the selection field still holds
\* a flagged text the parser rejects
C28_Witness ==
    /\ appState = "DONE"
    /\ extractionMode = "ALL"
    /\ pageSelection # <<>>
    /\ pageSelectionError # "none"
    /\ parsePageRanges(pageSelection, appTotalPages).err # "none"
    /\ pagesToExtract = NoSelection
    /\ Len(outcomes) = appTotalPages

\* the changes of AppState the claim allows
AllowedTransitions ==
    {<<"IDLE", "LOADING">>, <<"LOADING", "READY">>, <<"READY", "PROCESSING">>,
     <<"PROCESSING", "DONE">>, <<"IDLE", "ERROR">>, <<"LOADING", "ERROR">>,
     <<"PROCESSING", "ERROR">>, <<"DONE", "IDLE">>, <<"ERROR", "IDLE">>}

\* C29: AppState changes only along IDLE -> LOADING -> READY -> PROCESSING ->
\* DONE; ERROR is entered from IDLE (oversized file), from LOADING (empty or
\* unloadable file) and from PROCESSING (the run threw); IDLE is entered again
\* only by the reset; DONE is entered only when the generator has returned and
\* every outcome it yielded is in the results list.
C29_AppStateTransitions ==
    [][appState' # appState =>
        /\ <<appState, appState'>> \in AllowedTransitions
        /\ appState' = "DONE" =>
              (/\ pc = "done"
               /\ requests = delivered
               /\ Len(results') = Len(pageIndicesToProcess)
               /\ Len(outcomes') = Len(pageIndicesToProcess))
        /\ (appState = "IDLE" /\ appState' = "ERROR") =>
              (error' = "error_fileTooLarge" /\ appFile'.sizeMB > MAX_FILE_SIZE_MB)
        /\ (appState = "LOADING" /\ appState' = "ERROR") =>
              error' = (IF appFile.loadable THEN "error_pdf_empty" ELSE "error_pdf_load")
        /\ (appState = "PROCESSING" /\ appState' = "ERROR") =>
              (pc = "thrown" /\ error' = thrown /\ thrown # "none")
        /\ appState' = "IDLE" => (appFile' = NoFile /\ fileRef' = NoFile /\ results' = <<>>)
    ]_vars

\* a warned-about file went through LOADING, READY and PROCESSING to DONE with
\* the two pages selected in SPECIFIC mode
C29_Witness ==
    /\ appState = "DONE"
    /\ largeFileWarning
    /\ extractionMode = "SPECIFIC"
    /\ Len(results) = 2
    /\ appTotalPages > 2

\* the 1-based pages the user selected: all of them in ALL mode
SelectedPages ==
    IF extractionMode = "SPECIFIC"
    THEN parsePageRanges(pageSelection, appTotalPages).pages
    ELSE [k \in 1..appTotalPages |-> k]

\* C30: whenever AppState is DONE the job status and the results agree with the
\* completed run: stage DONE, progress 100, processedPages = totalPages =
\* number of selected pages = length of the results list, and the results are
\* the selected pages in strictly ascending order of pageNumber.
C30_DoneAgreesWithRun ==
    appState = "DONE" =>
        /\ jobStatus.stage = "DONE"
        /\ RatEq(jobStatus.overallProgress, RatInt(100))
        /\ jobStatus.processedPages = jobStatus.totalPages
        /\ jobStatus.totalPages = Len(SelectedPages)
        /\ Len(results) = Len(SelectedPages)
        /\ \A k \in 1..Len(results) : results[k].pageNumber = SelectedPages[k]
        /\ StrictlyAscending([k \in 1..Len(results) |-> results[k].pageNumber])

\* a completed run of several pages, one of which failed
C30_Witness ==
    /\ appState = "DONE"
    /\ Len(results) >= 2
    /\ \E k \in 1..Len(results) : results[k].status = "ERROR"
    /\ \E k \in 1..Len(results) : results[k].status = "OK"
    /\ jobStatus.processedPages = Len(results)

\* C31: whenever a processing run ends in AppState ERROR the results list is
\* empty: what pdfProcessor throws is thrown before the first outcome is
\* yielded (nothing was copied yet), so no partial results stand next to a
\* processing error.
C31_NoPartialResultsOnError ==
    /\ appState = "ERROR" => results = <<>>
    /\ thrown # "none" => (outcomes = <<>> /\ copies = 0 /\ i = 0)
    /\ (appState = "PROCESSING" /\ outcomes # <<>>) => thrown = "none"

\* a run over a file of several pages that loaded in handleFileSelect and
\* failed to load in pdfProcessor ended in ERROR
C31_Witness ==
    /\ appState = "ERROR"
    /\ pc = "thrown"
    /\ error = "error_pdf_load"
    /\ appFile.loadable
    /\ appTotalPages >= 2
    /\ results = <<>>

\* q is p with elements appended
Extends(p, q) == Len(p) <= Len(q) /\ SubSeq(q, 1, Len(p)) = p

\* C32: at most one run is active per App: the generator is in progress only
\* while AppState is PROCESSING, and a run is created (file, selection, emissions and outcomes replaced) only
\* when no run is active.  So jobStatus and results only grow by the updates
\* and outcomes of the one run, or are reset when none is active.
C32_SingleActiveRun ==
    /\ [](/\ (Running \/ pc \notin {"start", "done", "thrown"}) => appState = "PROCESSING"
          /\ appState \in {"DONE", "ERROR"} => (~Running /\ pc \in {"start", "done", "thrown"}))
    /\ [][/\ (file' # file \/ pagesToExtract' # pagesToExtract) => appState # "PROCESSING"
          /\ emissions' # emissions =>
                \/ appState' = "PROCESSING" /\ Extends(emissions, emissions')
                \/ appState # "PROCESSING" /\ emissions' = <<>>
          /\ outcomes' # outcomes =>
                \/ appState' = "PROCESSING" /\ Len(outcomes') = Len(outcomes) + 1
                                            /\ Extends(outcomes, outcomes')
                \/ appState # "PROCESSING" /\ outcomes' = <<>>
          /\ results' # results =>
                (Len(results') = Len(results) + 1 \/ (appState # "PROCESSING" /\ results' = <<>>))
          /\ (appState = "PROCESSING" /\ appState' = "PROCESSING") =>
                (requests' >= requests /\ delivered' >= delivered)]_vars

\* a run is under way, with outcomes received and targets left, and the start
\* button is not rendered
C32_Witness ==
    /\ appState = "PROCESSING"
    /\ pc = "suspended"
    /\ outcomes # <<>>
    /\ Len(outcomes) < Len(pageIndicesToProcess)
    /\ ~StartButtonRendered

C33_ReportAvailableAfterSizeCheck ==
    (appState = "ERROR" /\ appFile.present /\ error # "error_fileTooLarge")
        => (fileRef.present /\ fileRef = appFile)

====
